---- MODULE Spec2Model ----
(***************************************************************************)
(* Model of streamlit_app2.py: the synthetic data generator                *)
(* generate_innbucks_data, the aggregator calculate_innbucks_kpis and the  *)
(* script body that applies the sidebar filters and derives the grouped    *)
(* chart aggregations.                                                     *)
(*                                                                         *)
(* Conventions                                                             *)
(*  - time is counted in hours since 2020-01-01 00:00, the first           *)
(*    registration_date (line 65);                                         *)
(*  - money is counted in units of 1/10000 USD, so that 1% and 2% of an    *)
(*    amount given in whole cents are exact;                               *)
(*  - identifiers are sequences of one-character strings, so that          *)
(*    concatenation, zero padding and slicing are modelled as such;        *)
(*  - a draw from numpy's seeded random stream, a reading of the wall      *)
(*    clock and a widget selection are choices from the sample sets of the *)
(*    scenario fixed in Init.                                              *)
(*  - the columns customer_type, age, mobile_network, primary_currency,    *)
(*    zwl_balance and the agents' registration_date are not modelled.      *)
(***************************************************************************)
EXTENDS Integers, Sequences, FiniteSets, TLC

VARIABLES
    scenario,               \* sample sets of the random stream, clock and widgets
    pc,                     \* position of the script
    clock,                  \* last reading of datetime.datetime.now()
    idx,                    \* loop variable of the generator's outer loops
    i,                      \* loop variable i of the transaction loop (line 99)
    n_transactions,         \* Poisson draw for the current account, -1 before it
    start_date,             \* line 93
    customers_df,
    accounts_df,            \* accounts_data / accounts_df
    transactions_df,        \* transactions_data / transactions_df
    agents_df,              \* agents_data / agents_df
    kpis,                   \* line 198
    kpis_again,             \* result of a second call of calculate_innbucks_kpis
    error,                  \* exception that ended the script, or "none"
    selected_region,
    selected_branch,
    date_range,
    filtered_customers,
    filtered_transactions,
    txn_types,
    channel_usage,
    probe                   \* two (customer, index) pairs and the ids built for them

vars == <<scenario, pc, clock, idx, i, n_transactions, start_date, customers_df,
          accounts_df, transactions_df, agents_df, kpis, kpis_again, error,
          selected_region, selected_branch, date_range, filtered_customers,
          filtered_transactions, txn_types, channel_usage, probe>>

(***************************************************************************)
(* Bounds of the model                                                     *)
(***************************************************************************)
NCustomers == 2         \* n_customers (5000 in the source)
NAgents == 1            \* n_agents (200 in the source)
MaxCust == 12           \* customer numbers of the identifier probes
MaxIdx == 10            \* sequence indexes of the identifier probes

(***************************************************************************)
(* Literals of the source                                                  *)
(***************************************************************************)
\* variant: two accounts per customer
n_accounts_two == 1 + 1
\* line 73
n_accounts == 1
LookbackDays == 90
HoursPerDay == 24
WeekDays == 7
DefaultRangeDays == 30
IdWidth == 5
AgentIdWidth == 4

branches == {"Harare CBD", "Bulawayo Central", "Mutare", "Gweru", "Masvingo",
             "Chinhoyi", "Kadoma"}
regions == {"Harare", "Bulawayo", "Midlands", "Masvingo", "Manicaland", "Mashonaland"}
kyc_statuses == {"Verified", "Pending", "Expired"}
transaction_types == {"Send Money", "Cash In", "Cash Out", "Bill Payment", "Airtime"}
channels == {"Mobile App", "USSD", "Agent", "Branch"}
agent_statuses == {"Active", "Inactive"}

None == "None"
NaN == "NaN"

(***************************************************************************)
(* Money, time and the calendar                                            *)
(***************************************************************************)
Usd(dollars, cents) == (dollars * 100 + cents) * 100

Abs(x) == IF x < 0 THEN -x ELSE x

Max(a, b) == IF a >= b THEN a ELSE b

Days(n) == n * HoursPerDay

DateOf(t) == t \div HoursPerDay

TimeOfDay(t) == t % HoursPerDay

\* lengths of the months of 2020, the year of the first registration dates
MonthLengths == <<31, 29, 31, 30, 31, 30, 31, 31, 30, 31, 30, 31>>

RECURSIVE FirstOfMonthFrom(_, _, _)
FirstOfMonthFrom(d, m, first) ==
    IF m > Len(MonthLengths) \/ d < first + MonthLengths[m]
    THEN first
    ELSE FirstOfMonthFrom(d, m + 1, first + MonthLengths[m])

\* the date of day 1 of the month that date d lies in
FirstOfMonth(d) == FirstOfMonthFrom(d, 1, 0)

\* datetime.replace(day=1): the day of the month becomes 1, the time of day stays
ReplaceDay1(t) == Days(FirstOfMonth(DateOf(t))) + TimeOfDay(t)

\* pd.date_range('2020-01-01', periods=n, freq='D')[k-1]
RegistrationDate(k) == Days(k - 1)

(***************************************************************************)
(* Identifiers                                                             *)
(***************************************************************************)
DigitChar == <<"0", "1", "2", "3", "4", "5", "6", "7", "8", "9">>

RECURSIVE Str(_)
Str(n) == IF n < 10 THEN <<DigitChar[n + 1]>>
          ELSE Str(n \div 10) \o <<DigitChar[(n % 10) + 1]>>

RECURSIVE ZeroPad(_, _)
ZeroPad(s, w) == IF Len(s) >= w THEN s ELSE ZeroPad(<<"0">> \o s, w)

\* variant: f'INN{i}', without the zero padding
CustomerIdUnpadded(k) == <<"I", "N", "N">> \o Str(k)

\* f'INN{i:05d}'
CustomerId(k) == <<"I", "N", "N">> \o ZeroPad(Str(k), IdWidth)

\* f'ACC{cust_id}'
AccountId(cust_id) == <<"A", "C", "C">> \o cust_id

\* f'TXN{account_id}{i}'
TransactionId(account_id, n) == <<"T", "X", "N">> \o account_id \o Str(n)

\* f'AGT{i:04d}'
AgentId(n) == <<"A", "G", "T">> \o ZeroPad(Str(n), AgentIdWidth)

\* account_id.str[3:]
Slice3(s) == SubSeq(s, 4, Len(s))

(***************************************************************************)
(* The random stream                                                       *)
(***************************************************************************)
\* np.random.lognormal(mu, sigma), mu and sigma in tenths: the median exp(mu)
\* and, in a scenario with spread, a draw three sigma below it
LogNormal(mu, sigma, spread) ==
    LET median == CASE mu = 30 -> Usd(20, 9)
                    [] mu = 35 -> Usd(33, 12)
                    [] mu = 40 -> Usd(54, 60)
                    [] mu = 50 -> Usd(148, 41)
                    [] mu = 80 -> Usd(2980, 96)
        low    == CASE mu = 30 -> Usd(1, 82)
                    [] mu = 35 -> Usd(1, 65)
                    [] mu = 40 -> Usd(1, 49)
                    [] mu = 50 -> Usd(4, 6)
                    [] mu = 80 -> Usd(148, 41)
    IN  IF spread THEN {median, low} ELSE {median}

\* the parameters of the amount's distribution, lines 106-111
AmountParams(transaction_type) ==
    CASE transaction_type = "Send Money" -> <<35, 10>>
      [] transaction_type = "Cash In"    -> <<40, 12>>
      [] OTHER                           -> <<30, 8>>

\* 'Completed' if np.random.random() > 0.02 else 'Failed', r in thousandths
StatusOf(r) == IF r > 20 THEN "Completed" ELSE "Failed"

\* variant: the 2% rate applied to Cash In instead of Bill Payment
FeeUsdCashIn(amount, transaction_type) ==
    IF transaction_type \in {"Send Money", "Cash In"}
    THEN (amount * 2) \div 100
    ELSE (amount * 1) \div 100

\* amount * 0.02 if transaction_type in ['Send Money', 'Bill Payment'] else amount * 0.01
FeeUsd(amount, transaction_type) ==
    IF transaction_type \in {"Send Money", "Bill Payment"}
    THEN (amount * 2) \div 100
    ELSE (amount * 1) \div 100

(***************************************************************************)
(* Scenarios: which columns vary, and over which samples                   *)
(***************************************************************************)
BaseScenario ==
    [name |-> "base",
     regions |-> {"Harare"}, branches |-> {"Harare CBD"}, kyc |-> {"Verified"},
     spread |-> FALSE, poisson |-> {1},
     day_offsets |-> {89}, hour_offsets |-> {0},
     types |-> {"Send Money"}, channels |-> {"Mobile App"}, randoms |-> {500},
     agent_locations |-> {"Mutare"}, agent_statuses |-> {"Active"},
     clocks |-> {Days(40) + 10}, spans |-> {DefaultRangeDays}]

Segments ==
    [BaseScenario EXCEPT !.name = "segments",
        !.regions = {"Harare", "Bulawayo"}, !.branches = {"Harare CBD", "Mutare"},
        !.poisson = {0, 1},
        !.types = {"Send Money", "Cash In"}, !.channels = {"Mobile App", "USSD"}]

Timing ==
    [BaseScenario EXCEPT !.name = "timing",
        !.poisson = {0, 1},
        !.day_offsets = {0, 85}, !.hour_offsets = {23},
        !.randoms = {10, 500},
        !.clocks = {Days(1) + 10, Days(9) + 10, Days(31)},
        !.spans = {DefaultRangeDays, WeekDays}]

Fees ==
    [BaseScenario EXCEPT !.name = "fees",
        !.poisson = {0, 1, 2},
        !.types = {"Send Money", "Cash In", "Bill Payment", "Airtime"}]

Holdings ==
    [BaseScenario EXCEPT !.name = "holdings",
        !.kyc = {"Verified", "Pending"}, !.spread = TRUE,
        !.agent_statuses = agent_statuses]

Scenarios == {Segments, Timing, Fees, Holdings}

\* a reading of datetime.datetime.now(): the clock never runs backwards
Now == {t \in scenario.clocks : t >= clock}

(***************************************************************************)
(* Initial state: nothing generated yet                                    *)
(***************************************************************************)
NoProbe == [built |-> FALSE]

InitScript ==
    /\ pc = "start"
    /\ clock = 0
    /\ idx = 0
    /\ i = 0
    /\ n_transactions = -1
    /\ start_date = None
    /\ customers_df = <<>>
    /\ accounts_df = <<>>
    /\ transactions_df = <<>>
    /\ agents_df = <<>>
    /\ kpis = None
    /\ kpis_again = <<>>
    /\ error = "none"
    /\ selected_region = None
    /\ selected_branch = None
    /\ date_range = None
    /\ filtered_customers = None
    /\ filtered_transactions = None
    /\ txn_types = None
    /\ channel_usage = None

Init ==
    /\ scenario \in Scenarios
    /\ InitScript
    /\ probe = NoProbe

(***************************************************************************)
(* generate_innbucks_data                                                  *)
(***************************************************************************)
CustomerRow(k, region, branch, kyc) ==
    [customer_id |-> CustomerId(k),
     region |-> region,
     branch |-> branch,
     registration_date |-> RegistrationDate(k),
     kyc_status |-> kyc]

\* lines 48-68: the customers table, one row per customer number
GenCustomers ==
    /\ pc = "start"
    /\ \E region \in [1..NCustomers -> scenario.regions],
          branch \in [1..NCustomers -> scenario.branches],
          kyc \in [1..NCustomers -> scenario.kyc] :
            customers_df' = [k \in 1..NCustomers |->
                                CustomerRow(k, region[k], branch[k], kyc[k])]
    /\ pc' = "accounts"
    /\ idx' = 1
    /\ UNCHANGED <<scenario, clock, i, n_transactions, start_date, accounts_df,
                   transactions_df, agents_df, kpis, kpis_again, error,
                   selected_region, selected_branch, date_range,
                   filtered_customers, filtered_transactions, txn_types,
                   channel_usage, probe>>

AccountRow(cust_id, usd_balance) ==
    [customer_id |-> cust_id,
     account_id |-> AccountId(cust_id),
     usd_balance |-> usd_balance,
     total_balance_usd |-> usd_balance,
     account_status |-> "Active"]

\* lines 72-87: one iteration of the loop over customer_ids, with its inner
\* loop over range(n_accounts)
GenAccounts ==
    /\ pc = "accounts"
    /\ idx <= Len(customers_df)
    /\ \E draw \in [1..n_accounts -> LogNormal(50, 12, scenario.spread)] :
         accounts_df' = accounts_df \o
            [j \in 1..n_accounts |->
                AccountRow(customers_df[idx].customer_id, Max(Usd(10, 0), draw[j]))]
    /\ idx' = idx + 1
    /\ UNCHANGED <<scenario, pc, clock, i, n_transactions, start_date, customers_df,
                   transactions_df, agents_df, kpis, kpis_again, error,
                   selected_region, selected_branch, date_range,
                   filtered_customers, filtered_transactions, txn_types,
                   channel_usage, probe>>

\* lines 89-93: the accounts loop is exhausted; start_date is read off the clock
StartTransactions ==
    /\ pc = "accounts"
    /\ idx > Len(customers_df)
    /\ \E now \in Now :
         /\ clock' = now
         /\ start_date' = now - Days(LookbackDays)
    /\ pc' = "transactions"
    /\ idx' = 1
    /\ i' = 0
    /\ n_transactions' = -1
    /\ UNCHANGED <<scenario, customers_df, accounts_df, transactions_df, agents_df,
                   kpis, kpis_again, error, selected_region, selected_branch,
                   date_range, filtered_customers, filtered_transactions,
                   txn_types, channel_usage, probe>>

\* line 97: the number of transactions of the account at idx
DrawTransactionCount ==
    /\ pc = "transactions"
    /\ idx <= Len(accounts_df)
    /\ n_transactions = -1
    /\ \E n \in scenario.poisson :
         IF n = 0
         THEN /\ idx' = idx + 1
              /\ n_transactions' = -1
         ELSE /\ idx' = idx
              /\ n_transactions' = n
    /\ i' = 0
    /\ UNCHANGED <<scenario, pc, clock, start_date, customers_df, accounts_df,
                   transactions_df, agents_df, kpis, kpis_again, error,
                   selected_region, selected_branch, date_range,
                   filtered_customers, filtered_transactions, txn_types,
                   channel_usage, probe>>

TransactionRow(account_id, n, date, amount, type, channel, status) ==
    [transaction_id |-> TransactionId(account_id, n),
     account_id |-> account_id,
     transaction_date |-> date,
     amount_usd |-> amount,
     transaction_type |-> type,
     channel |-> channel,
     status |-> status,
     fee_usd |-> FeeUsd(amount, type)]

\* lines 99-125: one iteration of the loop over range(n_transactions)
GenTransaction ==
    /\ pc = "transactions"
    /\ idx <= Len(accounts_df)
    /\ n_transactions # -1
    /\ i < n_transactions
    /\ \E d \in scenario.day_offsets, h \in scenario.hour_offsets,
          type \in scenario.types, channel \in scenario.channels,
          r \in scenario.randoms :
         \E draw \in LogNormal(AmountParams(type)[1], AmountParams(type)[2],
                               scenario.spread) :
            transactions_df' = Append(transactions_df,
                TransactionRow(accounts_df[idx].account_id, i,
                               start_date + Days(d) + h,
                               Abs(draw), type, channel, StatusOf(r)))
    /\ IF i + 1 = n_transactions
       THEN /\ idx' = idx + 1
            /\ n_transactions' = -1
            /\ i' = 0
       ELSE /\ idx' = idx
            /\ n_transactions' = n_transactions
            /\ i' = i + 1
    /\ UNCHANGED <<scenario, pc, clock, start_date, customers_df, accounts_df,
                   agents_df, kpis, kpis_again, error, selected_region,
                   selected_branch, date_range, filtered_customers,
                   filtered_transactions, txn_types, channel_usage, probe>>

\* lines 127-131: the loop over accounts_data is exhausted
StartAgents ==
    /\ pc = "transactions"
    /\ idx > Len(accounts_df)
    /\ pc' = "agents"
    /\ idx' = 0
    /\ UNCHANGED <<scenario, clock, i, n_transactions, start_date, customers_df,
                   accounts_df, transactions_df, agents_df, kpis, kpis_again,
                   error, selected_region, selected_branch, date_range,
                   filtered_customers, filtered_transactions, txn_types,
                   channel_usage, probe>>

AgentRow(n, location, status, monthly_volume) ==
    [agent_id |-> AgentId(n),
     location |-> location,
     status |-> status,
     monthly_volume_usd |-> monthly_volume]

\* lines 133-145: one iteration of the loop over range(n_agents)
GenAgent ==
    /\ pc = "agents"
    /\ idx < NAgents
    /\ \E location \in scenario.agent_locations, status \in scenario.agent_statuses,
          volume \in LogNormal(80, 10, scenario.spread) :
         agents_df' = Append(agents_df, AgentRow(idx, location, status, volume))
    /\ idx' = idx + 1
    /\ UNCHANGED <<scenario, pc, clock, i, n_transactions, start_date, customers_df,
                   accounts_df, transactions_df, kpis, kpis_again, error,
                   selected_region, selected_branch, date_range,
                   filtered_customers, filtered_transactions, txn_types,
                   channel_usage, probe>>

\* lines 147-149 and 197: the four tables are returned to the script
ReturnTables ==
    /\ pc = "agents"
    /\ idx >= NAgents
    /\ pc' = "kpis"
    /\ UNCHANGED <<scenario, clock, idx, i, n_transactions, start_date,
                   customers_df, accounts_df, transactions_df, agents_df, kpis,
                   kpis_again, error, selected_region, selected_branch, date_range,
                   filtered_customers, filtered_transactions, txn_types,
                   channel_usage, probe>>

(***************************************************************************)
(* pandas helpers                                                          *)
(***************************************************************************)
\* df[col].sum()
RECURSIVE SumCol(_, _)
SumCol(df, col) == IF df = <<>> THEN 0 ELSE Head(df)[col] + SumCol(Tail(df), col)

\* df[df[col] == val]
RowsWhere(df, col, val) == SelectSeq(df, LAMBDA row : row[col] = val)

\* df[df[col] >= val]
RowsFrom(df, col, val) == SelectSeq(df, LAMBDA row : row[col] >= val)

\* df[col].unique()
Unique(df, col) == {df[k][col] : k \in DOMAIN df}

\* df[df['account_id'].str[3:].isin(customer_ids)]
RowsOfCustomers(df, customer_ids) ==
    SelectSeq(df, LAMBDA row : Slice3(row.account_id) \in customer_ids)

\* variant: counts the distinct accounts of each value, not its rows
ValueCountsDistinct(df, col) ==
    [v \in Unique(df, col) |->
        Cardinality({df[k].account_id : k \in {n \in DOMAIN df : df[n][col] = v}})]

\* df[col].value_counts(): the number of rows of each value that occurs
ValueCounts(df, col) ==
    [v \in Unique(df, col) |-> Cardinality({k \in DOMAIN df : df[k][col] = v})]

\* series.mean() and the like: NaN on an empty series, else the exact quotient
\* as the pair <<numerator, denominator>>
Mean(numerator, denominator) ==
    IF denominator = 0 THEN NaN ELSE <<numerator, denominator>>

(***************************************************************************)
(* calculate_innbucks_kpis                                                 *)
(***************************************************************************)
\* line 163 divides two Python ints: ZeroDivisionError when there is no row
RaisesZeroDivision(transactions) == Len(transactions) = 0

\* lines 156-194, for tables on which line 163 does not raise
calculate_innbucks_kpis(customers, accounts, transactions, agents, now) ==
    LET last_7_days   == now - Days(WeekDays)
        recent_txns   == RowsFrom(transactions, "transaction_date", last_7_days)
        current_month == ReplaceDay1(now)
    IN  [total_customers |-> Cardinality(Unique(customers, "customer_id")),
         active_agents |-> Len(RowsWhere(agents, "status", "Active")),
         kyc_completion_rate |->
            Mean(Len(RowsWhere(customers, "kyc_status", "Verified")), Len(customers)),
         total_transactions |-> Len(transactions),
         success_rate |->
            <<Len(RowsWhere(transactions, "status", "Completed")), Len(transactions)>>,
         total_volume |-> SumCol(transactions, "amount_usd"),
         total_fees |-> SumCol(transactions, "fee_usd"),
         total_deposits |-> SumCol(accounts, "total_balance_usd"),
         avg_balance |-> Mean(SumCol(accounts, "total_balance_usd"), Len(accounts)),
         weekly_volume |-> SumCol(recent_txns, "amount_usd"),
         weekly_transactions |-> Len(recent_txns),
         new_customers_this_month |->
            Len(RowsFrom(customers, "registration_date", current_month))]

\* line 198
CallKpis ==
    /\ pc = "kpis"
    /\ IF RaisesZeroDivision(transactions_df)
       THEN /\ pc' = "crashed"
            /\ error' = "ZeroDivisionError"
            /\ UNCHANGED <<clock, kpis>>
       ELSE /\ \E now \in Now :
                 /\ clock' = now
                 /\ kpis' = calculate_innbucks_kpis(customers_df, accounts_df,
                                                    transactions_df, agents_df, now)
            /\ pc' = "sidebar"
            /\ error' = error
    /\ UNCHANGED <<scenario, idx, i, n_transactions, start_date, customers_df,
                   accounts_df, transactions_df, agents_df, kpis_again,
                   selected_region, selected_branch, date_range,
                   filtered_customers, filtered_transactions, txn_types,
                   channel_usage, probe>>

\* a second call on the same tables, at the same or a later time
CallKpisAgain ==
    /\ pc = "sidebar"
    /\ kpis_again = <<>>
    /\ \E now \in Now :
         /\ clock' = now
         /\ kpis_again' = <<calculate_innbucks_kpis(customers_df, accounts_df,
                                                    transactions_df, agents_df, now)>>
    /\ UNCHANGED <<scenario, pc, idx, i, n_transactions, start_date, customers_df,
                   accounts_df, transactions_df, agents_df, kpis, error,
                   selected_region, selected_branch, date_range,
                   filtered_customers, filtered_transactions, txn_types,
                   channel_usage, probe>>

(***************************************************************************)
(* The script body: sidebar, filters, charts                               *)
(***************************************************************************)
\* lines 205-210: the selections of the two select boxes and of the date input,
\* whose default is the last DefaultRangeDays days
Sidebar ==
    /\ pc = "sidebar"
    /\ \E region \in {"All"} \cup Unique(customers_df, "region"),
          branch \in {"All"} \cup Unique(customers_df, "branch"),
          span \in scenario.spans, now \in Now :
         /\ selected_region' = region
         /\ selected_branch' = branch
         /\ date_range' = <<DateOf(now - Days(span)), DateOf(now)>>
         /\ clock' = now
    /\ pc' = "filter_region"
    /\ UNCHANGED <<scenario, idx, i, n_transactions, start_date, customers_df,
                   accounts_df, transactions_df, agents_df, kpis, kpis_again, error,
                   filtered_customers, filtered_transactions, txn_types,
                   channel_usage, probe>>

\* variant: the region filter applied to the tables themselves, not to copies
ApplyRegionFilterInPlace ==
    /\ pc = "filter_region"
    /\ IF selected_region # "All"
       THEN LET kept == RowsWhere(customers_df, "region", selected_region)
                customer_ids == Unique(kept, "customer_id")
            IN  /\ customers_df' = kept
                /\ transactions_df' = RowsOfCustomers(transactions_df, customer_ids)
       ELSE UNCHANGED <<customers_df, transactions_df>>
    /\ filtered_customers' = customers_df'
    /\ filtered_transactions' = transactions_df'
    /\ pc' = "filter_branch"
    /\ UNCHANGED <<scenario, clock, idx, i, n_transactions, start_date,
                   accounts_df, agents_df, kpis, kpis_again, error,
                   selected_region, selected_branch, date_range, txn_types,
                   channel_usage, probe>>

\* lines 213-219: the copies, and the region filter on them
ApplyRegionFilter ==
    /\ pc = "filter_region"
    /\ IF selected_region # "All"
       THEN LET kept == RowsWhere(customers_df, "region", selected_region)
                customer_ids == Unique(kept, "customer_id")
            IN  /\ filtered_customers' = kept
                /\ filtered_transactions' =
                        RowsOfCustomers(transactions_df, customer_ids)
       ELSE /\ filtered_customers' = customers_df
            /\ filtered_transactions' = transactions_df
    /\ pc' = "filter_branch"
    /\ UNCHANGED <<scenario, clock, idx, i, n_transactions, start_date,
                   customers_df, accounts_df, transactions_df, agents_df, kpis,
                   kpis_again, error, selected_region, selected_branch, date_range,
                   txn_types, channel_usage, probe>>

\* lines 221-224
ApplyBranchFilter ==
    /\ pc = "filter_branch"
    /\ IF selected_branch # "All"
       THEN LET kept == RowsWhere(filtered_customers, "branch", selected_branch)
                customer_ids == Unique(kept, "customer_id")
            IN  /\ filtered_customers' = kept
                /\ filtered_transactions' =
                        RowsOfCustomers(filtered_transactions, customer_ids)
       ELSE UNCHANGED <<filtered_customers, filtered_transactions>>
    /\ pc' = "charts"
    /\ UNCHANGED <<scenario, clock, idx, i, n_transactions, start_date,
                   customers_df, accounts_df, transactions_df, agents_df, kpis,
                   kpis_again, error, selected_region, selected_branch, date_range,
                   txn_types, channel_usage, probe>>

\* lines 298 and 310: the grouped counts behind the two transaction charts
Charts ==
    /\ pc = "charts"
    /\ txn_types' = ValueCounts(filtered_transactions, "transaction_type")
    /\ channel_usage' = ValueCounts(filtered_transactions, "channel")
    /\ pc' = "done"
    /\ UNCHANGED <<scenario, clock, idx, i, n_transactions, start_date,
                   customers_df, accounts_df, transactions_df, agents_df, kpis,
                   kpis_again, error, selected_region, selected_branch, date_range,
                   filtered_customers, filtered_transactions, probe>>

Next ==
    \/ GenCustomers
    \/ GenAccounts
    \/ StartTransactions
    \/ DrawTransactionCount
    \/ GenTransaction
    \/ StartAgents
    \/ GenAgent
    \/ ReturnTables
    \/ CallKpis
    \/ Sidebar
    \/ ApplyRegionFilter
    \/ ApplyBranchFilter
    \/ Charts

Spec == Init /\ [][Next]_vars

\* the script, with calculate_innbucks_kpis called a second time
NextTwice ==
    \/ Next
    \/ CallKpisAgain

SpecTwice == Init /\ [][NextTwice]_vars

(***************************************************************************)
(* The identifiers of two (customer number, sequence index) pairs          *)
(***************************************************************************)
ProbePairs == [c : 1..MaxCust, n : 0..MaxIdx]

InitIds ==
    /\ scenario = Segments
    /\ InitScript
    /\ probe \in [built : {FALSE}, a : ProbePairs, b : ProbePairs]

BuildIds ==
    /\ ~probe.built
    /\ probe' = [built |-> TRUE, a |-> probe.a, b |-> probe.b,
                 account_a |-> AccountId(CustomerId(probe.a.c)),
                 account_b |-> AccountId(CustomerId(probe.b.c)),
                 txn_a |-> TransactionId(AccountId(CustomerId(probe.a.c)), probe.a.n),
                 txn_b |-> TransactionId(AccountId(CustomerId(probe.b.c)), probe.b.n)]
    /\ UNCHANGED <<scenario, pc, clock, idx, i, n_transactions, start_date,
                   customers_df, accounts_df, transactions_df, agents_df, kpis,
                   kpis_again, error, selected_region, selected_branch, date_range,
                   filtered_customers, filtered_transactions, txn_types,
                   channel_usage>>

NextIds == BuildIds

SpecIds == InitIds /\ [][NextIds]_vars

(***************************************************************************)
(* Properties                                                              *)
(***************************************************************************)
\* positions of the script at which generate_innbucks_data has returned
AfterGenerate == {"kpis", "sidebar", "filter_region", "filter_branch", "charts",
                  "done", "crashed"}

\* positions of the script at which line 198 has been executed
AfterKpis == AfterGenerate \ {"kpis"}

RECURSIVE SumOfCounts(_)
SumOfCounts(counts) ==
    IF DOMAIN counts = {} THEN 0
    ELSE LET v == CHOOSE w \in DOMAIN counts : TRUE
         IN  counts[v] + SumOfCounts([w \in DOMAIN counts \ {v} |-> counts[w]])

\* C1: once generate_innbucks_data has returned there are as many accounts as
\* customers, every account's customer_id is the customer_id of a customer,
\* and every customer has exactly one account.
C1_OneAccountPerCustomer ==
    pc \in AfterGenerate =>
        /\ Len(accounts_df) = Len(customers_df)
        /\ \A a \in DOMAIN accounts_df :
             \E c \in DOMAIN customers_df :
                accounts_df[a].customer_id = customers_df[c].customer_id
        /\ \A c \in DOMAIN customers_df :
             Cardinality({a \in DOMAIN accounts_df :
                accounts_df[a].customer_id = customers_df[c].customer_id}) = 1

C1_Witness ==
    /\ pc = "kpis"
    /\ Len(customers_df) = NCustomers
    /\ Len(accounts_df) = NCustomers
    /\ Len(transactions_df) > 0

\* C2: when calculate_innbucks_kpis has been called on an empty transactions
\* table, the call has returned normally and success_rate is the undefined
\* sentinel: no arithmetic fault, no numeric rate.
C2_UndefinedRateNoFault ==
    (pc \in AfterKpis /\ Len(transactions_df) = 0) =>
        (error = "none" /\ kpis.success_rate = NaN)

\* C4: for every selection of the region and branch filters the counts of the
\* transaction-type chart sum to the total_transactions KPI, and so do the
\* counts of the channel chart.
C4_ChartCountsSumToKpi ==
    pc = "done" =>
        /\ SumOfCounts(txn_types) = kpis.total_transactions
        /\ SumOfCounts(channel_usage) = kpis.total_transactions

\* C4 (amended): for every selection of the region and branch filters the
\* counts of the transaction-type chart sum to the number of filtered
\* transactions, and so do the counts of the channel chart; that number never
\* exceeds the total_transactions KPI and equals it when both filters are 'All'.
C4_ChartCountsSumToFiltered ==
    pc = "done" =>
        /\ SumOfCounts(txn_types) = Len(filtered_transactions)
        /\ SumOfCounts(channel_usage) = Len(filtered_transactions)
        /\ Len(filtered_transactions) <= kpis.total_transactions
        /\ (selected_region = "All" /\ selected_branch = "All") =>
                Len(filtered_transactions) = kpis.total_transactions

C4_Witness ==
    /\ pc = "done"
    /\ selected_region # "All"
    /\ Len(filtered_transactions) > 0
    /\ Len(filtered_transactions) < kpis.total_transactions
    /\ SumOfCounts(txn_types) = Len(filtered_transactions)

\* C5: a second call of calculate_innbucks_kpis on the unchanged tables returns
\* the same value for every scalar metric as the first, whatever the wall-clock
\* times of the two calls.
C5_SecondCallSameMetrics ==
    kpis_again # <<>> => kpis_again[1] = kpis

\* C6: the filtered customers are exactly the customers whose region and
\* branch are the selected ones, and the filtered transactions are exactly
\* the transactions of those customers' accounts whose transaction_date lies
\* within the selected date range.
C6_FiltersSelectExactly ==
    pc \in {"charts", "done"} =>
        LET Selected(c) ==
                /\ selected_region # "All" => c.region = selected_region
                /\ selected_branch # "All" => c.branch = selected_branch
            OfSelected(t) ==
                \E a \in DOMAIN accounts_df, c \in DOMAIN customers_df :
                    /\ accounts_df[a].account_id = t.account_id
                    /\ accounts_df[a].customer_id = customers_df[c].customer_id
                    /\ Selected(customers_df[c])
            InRange(t) ==
                /\ date_range[1] <= DateOf(t.transaction_date)
                /\ DateOf(t.transaction_date) <= date_range[2]
        IN  /\ filtered_customers = SelectSeq(customers_df, Selected)
            /\ filtered_transactions =
                    SelectSeq(transactions_df, LAMBDA t : OfSelected(t) /\ InRange(t))

\* C7: once generate_innbucks_data has returned, no step of the script adds,
\* removes or changes a row of the customers, accounts, transactions or agents
\* tables.
C7_TablesFrozen ==
    [][(pc \in AfterGenerate) =>
            (/\ customers_df' = customers_df
             /\ accounts_df' = accounts_df
             /\ transactions_df' = transactions_df
             /\ agents_df' = agents_df)]_vars

C7_Witness ==
    /\ pc = "done"
    /\ selected_region # "All"
    /\ selected_branch # "All"
    /\ Len(filtered_customers) < Len(customers_df)
    /\ Len(filtered_transactions) < Len(transactions_df)

\* C8: the transaction ids of two distinct (account, index) pairs differ, and
\* the account ids of two distinct customers differ.
C8_IdsDistinct ==
    probe.built =>
        /\ probe.a # probe.b => probe.txn_a # probe.txn_b
        /\ probe.a.c # probe.b.c => probe.account_a # probe.account_b

C8_Witness ==
    /\ probe.built
    /\ probe.a = [c |-> 1, n |-> 10]
    /\ probe.b = [c |-> 11, n |-> 0]
    /\ probe.txn_a # probe.txn_b

\* C9: every generated transaction has amount_usd > 0 and fee_usd <= amount_usd,
\* and fee_usd is 2% of amount_usd for Send Money and Bill Payment, 1% of it
\* for every other transaction type.
C9_AmountsAndFees ==
    \A k \in DOMAIN transactions_df :
        LET row == transactions_df[k]
            percent == IF row.transaction_type \in {"Send Money", "Bill Payment"}
                       THEN 2 ELSE 1
        IN  /\ row.amount_usd > 0
            /\ row.fee_usd <= row.amount_usd
            /\ row.fee_usd * 100 = row.amount_usd * percent

C9_Witness ==
    /\ pc = "kpis"
    /\ \E k \in DOMAIN transactions_df :
            transactions_df[k].transaction_type = "Bill Payment"
    /\ \E k \in DOMAIN transactions_df :
            transactions_df[k].transaction_type = "Cash In"

\* C10: new_customers_this_month is the number of customers whose
\* registration_date is on or after the first day of the calendar month in
\* which calculate_innbucks_kpis runs, whatever the time of day.
C10_NewCustomersSinceFirstOfMonth ==
    (pc = "sidebar" /\ kpis_again = <<>>) =>
        kpis.new_customers_this_month =
            Cardinality({k \in DOMAIN customers_df :
                customers_df[k].registration_date >= Days(FirstOfMonth(DateOf(clock)))})
====
